---- MODULE Spec2Model ----
(***************************************************************************)
(* A model of the maze solver: the Maze loader (maze.py), the breadth      *)
(* first search (bfs.py) and the A* search (alphastar.py).                 *)
(*                                                                         *)
(* A position is the pair <<x, y>> = (column, row), 0-based as in the      *)
(* source.  The grid is a sequence of rows; TLA+ sequences are 1-based, so *)
(* the source's grid[y][x] is grid[y + 1][x + 1] here.                     *)
(***************************************************************************)
EXTENDS Integers, Sequences, FiniteSets

\* ------------------------------------------------------------------ bounds
\* The longest line of a maze file, in characters.
MaxLineLen == 3
\* The largest number of lines of a maze file.
MaxLines == 2
\* The widest and the tallest well-formed maze the solvers are run on.
MaxWidth == 3
MaxHeight == 2
\* The widest and the tallest of the narrow mazes A* is run on alone: an
\* entry of the open set is overtaken by a later push of its position only in
\* mazes of twelve cells, or of two by five.
TallWidth == 2
TallHeight == 5

\* ------------------------------------------------------------ Python values
\* Python's None, where the source holds None or a position (a pair).
None == <<>>

\* ------------------------------------------------------------ maze.py: text
\* The characters a line of a maze file is made of: the four cell digits, a
\* digit that is no cell value, a character that is no digit, and a blank.
Chars == {"0", "1", "2", "3", "4", "x", " "}

Whitespace == {" "}

RECURSIVE SeqsUpTo(_, _)
\* Every sequence over S of length at most n.
SeqsUpTo(S, n) ==
    IF n = 0 THEN {<<>>}
    ELSE LET shorter == SeqsUpTo(S, n - 1)
         IN  shorter \cup {Append(s, c) : s \in {t \in shorter : Len(t) = n - 1}, c \in S}

\* The lines a maze file may hold (the line break taken off).
Lines == SeqsUpTo(Chars, MaxLineLen)

RECURSIVE lstrip(_)
lstrip(s) ==
    IF s # <<>> /\ Head(s) \in Whitespace THEN lstrip(Tail(s)) ELSE s

RECURSIVE rstrip(_)
rstrip(s) ==
    IF s # <<>> /\ s[Len(s)] \in Whitespace THEN rstrip(SubSeq(s, 1, Len(s) - 1)) ELSE s

\* str.strip(): leading and trailing whitespace removed.
strip(s) == rstrip(lstrip(s))

RECURSIVE TakeWord(_)
\* The longest prefix of s that holds no whitespace.
TakeWord(s) ==
    IF s = <<>> \/ Head(s) \in Whitespace THEN <<>>
    ELSE <<Head(s)>> \o TakeWord(Tail(s))

RECURSIVE split(_)
\* str.split() with no argument: the words between runs of whitespace.
split(s) ==
    LET t == lstrip(s)
    IN  IF t = <<>> THEN <<>>
        ELSE LET w == TakeWord(t)
             IN  <<w>> \o split(SubSeq(t, Len(w) + 1, Len(t)))

\* The characters int() accepts, and the integer each one stands for.
DigitChars == {"0", "1", "2", "3", "4"}

int(c) ==
    CASE c = "0" -> 0
      [] c = "1" -> 1
      [] c = "2" -> 2
      [] c = "3" -> 3
      [] c = "4" -> 4

\* ------------------------------------------------------- maze.py: read_maze
ErrInvalid  == "Invalid value in maze file. Allowed values are 0, 1, 2, 3."
ErrIntParse == "invalid literal for int() with base 10"
ErrStart    == "Maze can only have one start position."
ErrEnd      == "Maze can only have one end position."
ErrMissing  == "Maze must have start (2) and end (3) positions."

RECURSIVE ScanRow(_, _, _, _, _, _)
\* The inner loop of read_maze over the characters of elements[0], from
\* column x on: the row built, start and end as they stand afterwards, and
\* the ValueError raised, if any ("" when none).
ScanRow(word, x, y, row, st, en) ==
    IF x >= Len(word) THEN [err |-> "", row |-> row, start |-> st, end |-> en]
    ELSE LET ch == word[x + 1]
         IN  IF ch \notin DigitChars
             THEN [err |-> ErrIntParse, row |-> row, start |-> st, end |-> en]
             ELSE LET value == int(ch)
                      grown == Append(row, value)
                  IN  IF value \notin {0, 1, 2, 3}
                      THEN [err |-> ErrInvalid, row |-> row, start |-> st, end |-> en]
                      ELSE IF value = 2
                      THEN IF st # None
                           THEN [err |-> ErrStart, row |-> grown, start |-> st, end |-> en]
                           ELSE ScanRow(word, x + 1, y, grown, <<x, y>>, en)
                      ELSE IF value = 3 /\ en = None
                      THEN IF en # None
                           THEN [err |-> ErrEnd, row |-> grown, start |-> st, end |-> en]
                           ELSE ScanRow(word, x + 1, y, grown, st, <<x, y>>)
                      ELSE ScanRow(word, x + 1, y, grown, st, en)

\* One iteration of read_maze's loop over the lines of the file: line number
\* y of the file read into the maze m = [grid, start, end, err].
ReadLine(m, y, line) ==
    LET elements == split(strip(line))
    IN  IF elements = <<>> THEN m
        ELSE LET r == ScanRow(elements[1], 0, y, <<>>, m.start, m.end)
             IN  IF r.err # ""
                 THEN [m EXCEPT !.start = r.start, !.end = r.end, !.err = r.err]
                 ELSE [m EXCEPT !.grid = Append(m.grid, r.row),
                                !.start = r.start, !.end = r.end]

\* The check that follows the loop.
EndOfFile(m) ==
    IF m.start = None \/ m.end = None THEN [m EXCEPT !.err = ErrMissing] ELSE m

\* Maze.__init__ before read_maze is called.
NewMaze == [grid |-> <<>>, start |-> None, end |-> None, err |-> ""]

RECURSIVE ReadLines(_, _, _)
\* read_maze's loop over the lines of text from line number y on.
ReadLines(m, text, y) ==
    IF m.err # "" \/ y >= Len(text) THEN m
    ELSE ReadLines(ReadLine(m, y, text[y + 1]), text, y + 1)

\* Maze(maze_file) for a file that holds the lines of text.
read_maze(text) ==
    LET m == ReadLines(NewMaze, text, 0)
    IN  IF m.err # "" THEN m ELSE EndOfFile(m)

\* ---------------------------------------------- maze.py: the maze's queries
\* What a call comes to: the exception it raises ("" when it returns) and the
\* value it returns.
Returns(v) == [raised |-> "", value |-> v]
Raises(e) == [raised |-> e, value |-> None]

\* is_valid_position with the barrier test left out: any cell of the grid is
\* taken for valid.
is_valid_position_any_cell(g, p) ==
    LET x == p[1]
        y == p[2]
    IN  IF 0 <= y /\ y < Len(g) /\ 0 <= x /\ x < Len(g[1])
        THEN IF x < Len(g[y + 1]) THEN Returns(TRUE) ELSE Raises("IndexError")
        ELSE Returns(FALSE)

\* is_valid_position((x, y)) on grid g.  The subscript g[y][x] raises
\* IndexError when row y is shorter than row 0, whose length the guard uses.
is_valid_position(g, p) ==
    LET x == p[1]
        y == p[2]
    IN  IF 0 <= y /\ y < Len(g) /\ 0 <= x /\ x < Len(g[1])
        THEN IF x < Len(g[y + 1]) THEN Returns(g[y + 1][x + 1] # 1)
             ELSE Raises("IndexError")
        ELSE Returns(FALSE)

\* directions with a diagonal step in the place of the last one.
directions_diagonal == << <<-1, 0>>, <<1, 0>>, <<0, -1>>, <<1, 1>> >>

\* Directions of which one leaps two columns.
directions_leap == << <<-1, 0>>, <<2, 0>>, <<0, -1>>, <<0, 1>> >>

\* directions of get_neighbors, as (dx, dy), in the order of the source.
directions == << <<-1, 0>>, <<1, 0>>, <<0, -1>>, <<0, 1>> >>

RECURSIVE NeighborsFrom(_, _, _, _)
\* The loop of get_neighbors from direction number i on, neighbors being the
\* list built so far; an exception of is_valid_position passes through.
NeighborsFrom(g, p, i, neighbors) ==
    IF i > Len(directions) THEN Returns(neighbors)
    ELSE LET n == <<p[1] + directions[i][1], p[2] + directions[i][2]>>
             v == is_valid_position(g, n)
         IN  IF v.raised # "" THEN Raises(v.raised)
             ELSE NeighborsFrom(g, p, i + 1,
                                IF v.value THEN Append(neighbors, n) ELSE neighbors)

get_neighbors(g, p) == NeighborsFrom(g, p, 1, <<>>)

\* ------------------------------------------------------- bfs.py, alphastar.py
\* A dict as a function on its keys: d[k] = v.
Put(d, k, v) == [j \in DOMAIN d \cup {k} |-> IF j = k THEN v ELSE d[j]]

EmptyDict == [j \in {} |-> None]

\* Whether position p is among the elements of sequence s.
InSeq(p, s) == \E i \in 1 .. Len(s) : s[i] = p

\* The path left in the order it was walked, from end to start.
Reverse_left_out(s) == s

\* seq[::-1]
Reverse(s) == [i \in 1 .. Len(s) |-> s[Len(s) + 1 - i]]

RECURSIVE WalkBack(_, _, _)
\* The loop that rebuilds the path, from end back to start along parent:
\*     while current is not None: path.append(current); current = parent[current]
WalkBack(parent, current, path) ==
    IF current = None THEN path
    ELSE WalkBack(parent, parent[current], Append(path, current))

\* The path returned once end is taken from the frontier.
ReconstructPath(parent, current) == Reverse(WalkBack(parent, current, <<>>))

\* deque.pop(): the item taken from the right end.
pop_right(q) == [item |-> q[Len(q)], rest |-> SubSeq(q, 1, Len(q) - 1)]

\* deque.popleft(): the item taken and the queue left.
popleft(q) == [item |-> Head(q), rest |-> Tail(q)]

\* BFS(maze): the object before solve() is called.  expanded is kept for the
\* claims, the program holds no such value: the positions solve() has called
\* get_neighbors for, in the order of the calls.
NewBFS == [pc |-> "new", queue |-> <<>>, visited |-> <<>>, parent |-> EmptyDict,
           path |-> <<>>, expanded |-> <<>>]

RECURSIVE BFSExpand_parentless(_, _, _, _)
\* The loop over the neighbors that records no parent for those it enqueues.
BFSExpand_parentless(b, current, neighbors, i) ==
    IF i > Len(neighbors) THEN b
    ELSE LET neighbor == neighbors[i]
         IN  IF ~InSeq(neighbor, b.visited)
             THEN BFSExpand_parentless([b EXCEPT !.queue = Append(@, neighbor),
                                                 !.visited = Append(@, neighbor),
                                                 !.parent = Put(@, neighbor, None)],
                                       current, neighbors, i + 1)
             ELSE BFSExpand_parentless(b, current, neighbors, i + 1)

RECURSIVE BFSExpand(_, _, _, _)
\* The loop of BFS.solve over neighbors, from number i on.
BFSExpand(b, current, neighbors, i) ==
    IF i > Len(neighbors) THEN b
    ELSE LET neighbor == neighbors[i]
         IN  IF ~InSeq(neighbor, b.visited)
             THEN BFSExpand([b EXCEPT !.queue = Append(@, neighbor),
                                      !.visited = Append(@, neighbor),
                                      !.parent = Put(@, neighbor, current)],
                            current, neighbors, i + 1)
             ELSE BFSExpand(b, current, neighbors, i + 1)

\* A beginning that enqueues start and leaves it out of visited.
BFSBegin_unvisited(b, m) ==
    [b EXCEPT !.pc = "loop",
              !.queue = Append(@, m.start),
              !.parent = Put(EmptyDict, m.start, None)]

\* BFS.solve up to the loop: start is enqueued, visited and given no parent.
BFSBegin(b, m) ==
    [b EXCEPT !.pc = "loop",
              !.queue = Append(@, m.start),
              !.visited = IF InSeq(m.start, @) THEN @ ELSE Append(@, m.start),
              !.parent = Put(EmptyDict, m.start, None)]

\* A loop that does not end when the queue is empty, but goes round it again.
BFSIteration_spinning(b, m) ==
    IF b.queue = <<>> THEN b
    ELSE LET taken == popleft(b.queue)
             current == taken.item
             b1 == [b EXCEPT !.queue = taken.rest]
         IN  IF current = m.end
             THEN [b1 EXCEPT !.pc = "returned",
                             !.path = ReconstructPath(b.parent, current)]
             ELSE LET b2 == [b1 EXCEPT !.expanded = Append(@, current)]
                      neighbors == get_neighbors(m.grid, current)
                  IN  IF neighbors.raised # ""
                      THEN [b2 EXCEPT !.pc = "raised"]
                      ELSE BFSExpand(b2, current, neighbors.value, 1)

\* One turn of the loop of BFS.solve, or its end when the queue is empty.
BFSIteration(b, m) ==
    IF b.queue = <<>> THEN [b EXCEPT !.pc = "returned", !.path = <<>>]
    ELSE LET taken == popleft(b.queue)
             current == taken.item
             b1 == [b EXCEPT !.queue = taken.rest]
         IN  IF current = m.end
             THEN [b1 EXCEPT !.pc = "returned",
                             !.path = ReconstructPath(b.parent, current)]
             ELSE LET b2 == [b1 EXCEPT !.expanded = Append(@, current)]
                      neighbors == get_neighbors(m.grid, current)
                  IN  IF neighbors.raised # ""
                      THEN [b2 EXCEPT !.pc = "raised"]
                      ELSE BFSExpand(b2, current, neighbors.value, 1)

\* abs()
abs(n) == IF n < 0 THEN 0 - n ELSE n

\* The square of the straight-line distance from position to maze.end.
heuristic_squared(m, position) ==
    (position[1] - m.end[1]) * (position[1] - m.end[1])
        + (position[2] - m.end[2]) * (position[2] - m.end[2])

\* AlphaStar.heuristic: the Manhattan distance from position to maze.end.
heuristic(m, position) ==
    abs(position[1] - m.end[1]) + abs(position[2] - m.end[2])

\* Python's order of the tuples (f, (x, y)) the open set holds.
TupleLess(a, b) ==
    \/ a[1] < b[1]
    \/ /\ a[1] = b[1]
       /\ \/ a[2][1] < b[2][1]
          \/ a[2][1] = b[2][1] /\ a[2][2] < b[2][2]

RECURSIVE heappush(_, _)
\* heapq.heappush.  The heap is held as the ascending sequence of its items:
\* what heapq guarantees is that heappop takes the smallest.
heappush(heap, item) ==
    IF heap = <<>> THEN <<item>>
    ELSE IF TupleLess(item, Head(heap)) THEN <<item>> \o heap
    ELSE <<Head(heap)>> \o heappush(Tail(heap), item)

\* A pop that takes the largest item of the heap.
heappop_largest(heap) ==
    [item |-> heap[Len(heap)], rest |-> SubSeq(heap, 1, Len(heap) - 1)]

\* heapq.heappop: the smallest item and the heap left.
heappop(heap) == [item |-> Head(heap), rest |-> Tail(heap)]

\* AlphaStar(maze): the object before solve() is called.  expanded is as in
\* NewBFS.
NewAlphaStar == [pc |-> "new", open_set |-> <<>>, visited |-> {},
                 g_costs |-> EmptyDict, f_costs |-> EmptyDict,
                 parent |-> EmptyDict, path |-> <<>>, expanded |-> <<>>]

RECURSIVE AStarExpand_visiting(_, _, _, _, _)
\* The loop over the neighbors that also adds to visited each neighbor it
\* pushes.
AStarExpand_visiting(a, m, current, neighbors, i) ==
    IF i > Len(neighbors) THEN a
    ELSE LET neighbor == neighbors[i]
             tentative_g_cost == a.g_costs[current] + 1
         IN  IF neighbor \in a.visited
             THEN AStarExpand_visiting(a, m, current, neighbors, i + 1)
             ELSE IF neighbor \notin DOMAIN a.g_costs
                     \/ tentative_g_cost < a.g_costs[neighbor]
             THEN LET f == tentative_g_cost + heuristic(m, neighbor)
                  IN  AStarExpand_visiting(
                          [a EXCEPT !.parent = Put(@, neighbor, current),
                                    !.g_costs = Put(@, neighbor, tentative_g_cost),
                                    !.f_costs = Put(@, neighbor, f),
                                    !.open_set = heappush(@, <<f, neighbor>>),
                                    !.visited = @ \cup {neighbor}],
                          m, current, neighbors, i + 1)
             ELSE AStarExpand_visiting(a, m, current, neighbors, i + 1)

RECURSIVE AStarExpand(_, _, _, _, _)
\* The loop of AlphaStar.solve over the neighbors of current, from number i on.
AStarExpand(a, m, current, neighbors, i) ==
    IF i > Len(neighbors) THEN a
    ELSE LET neighbor == neighbors[i]
             tentative_g_cost == a.g_costs[current] + 1
         IN  IF neighbor \in a.visited
             THEN AStarExpand(a, m, current, neighbors, i + 1)
             ELSE IF neighbor \notin DOMAIN a.g_costs
                     \/ tentative_g_cost < a.g_costs[neighbor]
             THEN LET f == tentative_g_cost + heuristic(m, neighbor)
                  IN  AStarExpand([a EXCEPT !.parent = Put(@, neighbor, current),
                                            !.g_costs = Put(@, neighbor, tentative_g_cost),
                                            !.f_costs = Put(@, neighbor, f),
                                            !.open_set = heappush(@, <<f, neighbor>>)],
                                  m, current, neighbors, i + 1)
             ELSE AStarExpand(a, m, current, neighbors, i + 1)

\* A beginning that gives start the cost of one step.
AStarBegin_cost_one(a, m) ==
    [a EXCEPT !.pc = "loop",
              !.open_set = heappush(@, <<0, m.start>>),
              !.g_costs = Put(@, m.start, 1),
              !.f_costs = Put(@, m.start, heuristic(m, m.start)),
              !.parent = Put(EmptyDict, m.start, None)]

\* AlphaStar.solve up to the loop.
AStarBegin(a, m) ==
    [a EXCEPT !.pc = "loop",
              !.open_set = heappush(@, <<0, m.start>>),
              !.g_costs = Put(@, m.start, 0),
              !.f_costs = Put(@, m.start, heuristic(m, m.start)),
              !.parent = Put(EmptyDict, m.start, None)]

\* One turn of the loop of AlphaStar.solve, or its end when open_set is empty.
AStarIteration(a, m) ==
    IF a.open_set = <<>> THEN [a EXCEPT !.pc = "returned", !.path = <<>>]
    ELSE LET taken == heappop(a.open_set)
             current == taken.item[2]
             a1 == [a EXCEPT !.open_set = taken.rest]
         IN  IF current = m.end
             THEN [a1 EXCEPT !.pc = "returned",
                             !.path = ReconstructPath(a.parent, current)]
             ELSE LET a2 == [a1 EXCEPT !.visited = @ \cup {current},
                                       !.expanded = Append(@, current)]
                      neighbors == get_neighbors(m.grid, current)
                  IN  IF neighbors.raised # ""
                      THEN [a2 EXCEPT !.pc = "raised"]
                      ELSE AStarExpand(a2, m, current, neighbors.value, 1)

\* ------------------------------------------- distances in a grid, for the claims
RECURSIVE Longest(_, _)
\* The length of the longest of the rows of g from row number i on.
Longest(g, i) ==
    IF i > Len(g) THEN 0
    ELSE LET rest == Longest(g, i + 1)
         IN  IF Len(g[i]) > rest THEN Len(g[i]) ELSE rest

\* The cell of grid g at position p, or -1 where g has no such cell.
CellAt(g, p) ==
    IF 0 <= p[2] /\ p[2] < Len(g) /\ 0 <= p[1] /\ p[1] < Len(g[p[2] + 1])
    THEN g[p[2] + 1][p[1] + 1]
    ELSE 0 - 1

\* The positions of g that hold a cell which is no barrier.
Free(g) ==
    {p \in (0 .. Longest(g, 1) - 1) \X (0 .. Len(g) - 1) : CellAt(g, p) \in {0, 2, 3}}

\* p and q are one unit step apart in one of the four cardinal directions.
UnitStep(p, q) ==
    \/ p[1] = q[1] /\ (p[2] = q[2] + 1 \/ q[2] = p[2] + 1)
    \/ p[2] = q[2] /\ (p[1] = q[1] + 1 \/ q[1] = p[1] + 1)

RECURSIVE Spread(_, _, _, _, _)
\* The least number of unit steps through the cells of free that lead to
\* target from the positions of layer, which lie d steps from the source, the
\* positions of reached being nearer; -1 when no walk leads there.
Spread(free, reached, layer, d, target) ==
    IF target \in layer THEN d
    ELSE LET seen == reached \cup layer
             next == {q \in free \ seen : \E p \in layer : UnitStep(p, q)}
         IN  IF next = {} THEN 0 - 1
             ELSE Spread(free, seen, next, d + 1, target)

\* The true shortest distance from p to q in grid g, -1 when q is
\* unreachable from p.
Distance(g, p, q) == Spread(Free(g), {}, {p}, 0, q)

\* The true shortest distance from start to end in maze m.
TrueDistance(m) == Distance(m.grid, m.start, m.end)

\* ------------------------------------------------------------------- state
VARIABLES
    file,     \* the lines of the maze file read so far
    maze,     \* the Maze under construction or constructed: grid, start, end
    pc,       \* "reading", "constructed", or "failed" when read_maze raised
    call,     \* the last query made of the constructed maze, and its outcome
    bfs,      \* the BFS object and the locals of its solve()
    astar,    \* the AlphaStar object and the locals of its solve()
    shortest  \* kept for the claims, the program holds no such value: the true
              \* shortest distance from start to end of the constructed maze,
              \* -1 when end is unreachable or no maze is constructed

vars == <<file, maze, pc, call, bfs, astar, shortest>>

NoCall == [op |-> "", arg |-> None, raised |-> "", value |-> None]

\* --------------------------------------------------- loading a maze file
InitMaze ==
    /\ file = <<>>
    /\ maze = NewMaze
    /\ pc = "reading"
    /\ call = NoCall
    /\ bfs = NewBFS
    /\ astar = NewAlphaStar
    /\ shortest = 0 - 1

\* The loop of read_maze takes the next line of the file.
ReadNextLine ==
    /\ pc = "reading"
    /\ Len(file) < MaxLines
    /\ \E line \in Lines :
          /\ file' = Append(file, line)
          /\ maze' = ReadLine(maze, Len(file), line)
    /\ pc' = IF maze'.err # "" THEN "failed" ELSE "reading"
    /\ UNCHANGED <<call, bfs, astar, shortest>>

\* The file ends: the loop is left and start and end are checked.
ReachEndOfFile ==
    /\ pc = "reading"
    /\ maze' = EndOfFile(maze)
    /\ pc' = IF maze'.err # "" THEN "failed" ELSE "constructed"
    /\ shortest' = IF maze'.err # "" THEN shortest ELSE TrueDistance(maze')
    /\ UNCHANGED <<file, call, bfs, astar>>

\* The positions is_valid_position is asked about: the grid and one step
\* around it.  The maze is not written after construction, so one call is
\* made of it.
Positions(g) == ((0 - 1) .. Longest(g, 1)) \X ((0 - 1) .. Len(g))

CallIsValidPosition ==
    /\ pc = "constructed"
    /\ call = NoCall
    /\ \E p \in Positions(maze.grid) :
          LET r == is_valid_position(maze.grid, p)
          IN  call' = [op |-> "is_valid_position", arg |-> p, raised |-> r.raised,
                       value |-> IF r.raised = "" THEN <<r.value>> ELSE None]
    /\ UNCHANGED <<file, maze, pc, bfs, astar, shortest>>

\* The positions get_neighbors is asked about: those of the grid, as the
\* solvers do.  Their candidates reach one step outside of it.
GridPositions(g) == (0 .. Longest(g, 1) - 1) \X (0 .. Len(g) - 1)

CallGetNeighbors ==
    /\ pc = "constructed"
    /\ call = NoCall
    /\ \E p \in GridPositions(maze.grid) :
          LET r == get_neighbors(maze.grid, p)
          IN  call' = [op |-> "get_neighbors", arg |-> p,
                       raised |-> r.raised, value |-> r.value]
    /\ UNCHANGED <<file, maze, pc, bfs, astar, shortest>>

\* AlphaStar(maze).heuristic(p) is called for a position of the grid.
CallHeuristic ==
    /\ pc = "constructed"
    /\ call = NoCall
    /\ \E p \in GridPositions(maze.grid) :
          call' = [op |-> "heuristic", arg |-> p, raised |-> "",
                   value |-> <<heuristic(maze, p)>>]
    /\ UNCHANGED <<file, maze, pc, bfs, astar, shortest>>

NextMaze ==
    \/ ReadNextLine
    \/ ReachEndOfFile
    \/ CallIsValidPosition
    \/ CallGetNeighbors

SpecMaze == InitMaze /\ [][NextMaze]_vars

\* ------------------------------------------------- solving a loaded maze
\* The cells of a grid w wide and h high.
Cells(w, h) == (0 .. w - 1) \X (0 .. h - 1)

\* The file of the w by h maze with start s, end e and barriers at walls.
MazeFile(w, h, s, e, walls) ==
    [r \in 1 .. h |->
        [c \in 1 .. w |->
            LET p == <<c - 1, r - 1>>
            IN  IF p = s THEN "2"
                ELSE IF p = e THEN "3"
                ELSE IF p \in walls THEN "1"
                ELSE "0"]]

\* A maze loaded from a well-formed file: a rectangle of digits with one 2
\* and one 3.  No solver has run on it yet.
InitSolve ==
    /\ \E w \in 1 .. MaxWidth, h \in 1 .. MaxHeight :
         \E s \in Cells(w, h), e \in Cells(w, h) :
            /\ s # e
            /\ \E walls \in SUBSET (Cells(w, h) \ {s, e}) :
                  file = MazeFile(w, h, s, e, walls)
    /\ maze = read_maze(file)
    /\ pc = "constructed"
    /\ call = NoCall
    /\ bfs = NewBFS
    /\ astar = NewAlphaStar
    /\ shortest = TrueDistance(maze)

\* BFS(maze).solve() is called.
BFSStart ==
    /\ pc = "constructed"
    /\ bfs.pc = "new"
    /\ bfs' = BFSBegin(bfs, maze)
    /\ UNCHANGED <<file, maze, pc, call, astar, shortest>>

\* BFS.solve() goes once round its loop, or leaves it.
BFSStep ==
    /\ bfs.pc = "loop"
    /\ bfs' = BFSIteration(bfs, maze)
    /\ UNCHANGED <<file, maze, pc, call, astar, shortest>>

\* AlphaStar(maze).solve() is called.
AStarStart ==
    /\ pc = "constructed"
    /\ astar.pc = "new"
    /\ astar' = AStarBegin(astar, maze)
    /\ UNCHANGED <<file, maze, pc, call, bfs, shortest>>

\* A turn of the loop that also writes the cell it takes into the grid, as
\* a barrier.
AStarStep_marking ==
    /\ astar.pc = "loop"
    /\ astar' = AStarIteration(astar, maze)
    /\ maze' = IF astar.open_set = <<>> THEN maze
               ELSE LET current == Head(astar.open_set)[2]
                    IN  [maze EXCEPT !.grid[current[2] + 1][current[1] + 1] = 1]
    /\ UNCHANGED <<file, pc, call, bfs, shortest>>

\* AlphaStar.solve() goes once round its loop, or leaves it.
AStarStep ==
    /\ astar.pc = "loop"
    /\ astar' = AStarIteration(astar, maze)
    /\ UNCHANGED <<file, maze, pc, call, bfs, shortest>>

\* solve() has come to its end, by a return or by an exception.
Done(solver) == solver.pc \in {"returned", "raised"}

\* The two searches run on the same maze one after the other, as two runs of
\* simulate() for the same maze file do.
NextSolve ==
    \/ BFSStart
    \/ BFSStep
    \/ Done(bfs) /\ AStarStart
    \/ Done(bfs) /\ AStarStep

SpecSolve == InitSolve /\ [][NextSolve]_vars

\* solve() is straight-line code in one thread: once called it is run on until
\* it returns or raises.
SpecSolveLive == SpecSolve /\ WF_vars(NextSolve)

\* get_neighbors asked of a maze loaded from a well-formed file.
NextQuery == CallGetNeighbors

SpecQuery == InitSolve /\ [][NextQuery]_vars

\* heuristic asked of an AlphaStar bound to a maze loaded from a well-formed
\* file.
NextHeuristic == CallHeuristic

SpecHeuristic == InitSolve /\ [][NextHeuristic]_vars

\* A BFS and an AlphaStar bound to the same maze, the steps of their solve()
\* taken in any order.
NextInterleave ==
    \/ BFSStart
    \/ BFSStep
    \/ AStarStart
    \/ AStarStep

\* The orders of the steps multiply the states: the mazes the two solvers
\* are interleaved on are those neither wider nor higher than MaxHeight.
InitSmall ==
    /\ \E w \in 1 .. MaxHeight, h \in 1 .. MaxHeight :
         \E s \in Cells(w, h), e \in Cells(w, h) :
            /\ s # e
            /\ \E walls \in SUBSET (Cells(w, h) \ {s, e}) :
                  file = MazeFile(w, h, s, e, walls)
    /\ maze = read_maze(file)
    /\ pc = "constructed"
    /\ call = NoCall
    /\ bfs = NewBFS
    /\ astar = NewAlphaStar
    /\ shortest = TrueDistance(maze)

SpecInterleave == InitSmall /\ [][NextInterleave]_vars

\* A narrow maze loaded from a well-formed file.
InitTall ==
    /\ \E w \in 1 .. TallWidth, h \in 1 .. TallHeight :
         \E s \in Cells(w, h), e \in Cells(w, h) :
            /\ s # e
            /\ \E walls \in SUBSET (Cells(w, h) \ {s, e}) :
                  file = MazeFile(w, h, s, e, walls)
    /\ maze = read_maze(file)
    /\ pc = "constructed"
    /\ call = NoCall
    /\ bfs = NewBFS
    /\ astar = NewAlphaStar
    /\ shortest = TrueDistance(maze)

\* AlphaStar(maze).solve() alone.
NextAStar ==
    \/ AStarStart
    \/ AStarStep

SpecAStarTall == InitTall /\ [][NextAStar]_vars

\* ------------------------------------------------------------- the claims
\* End can be reached from start through free cells by unit steps.
Reachable == shortest >= 0

\* C1: when end is reachable from start, BFS.solve() does not raise, and the
\* path it returns is not empty and has as many edges as the true shortest
\* distance from start to end.
C1_BFSShortest ==
    (Done(bfs) /\ Reachable) =>
        /\ bfs.pc = "returned"
        /\ bfs.path # <<>>
        /\ Len(bfs.path) - 1 = shortest

\* BFS has returned a path of three edges or more in a maze that has a barrier.
C1_Witness ==
    /\ bfs.pc = "returned"
    /\ Reachable
    /\ Len(bfs.path) >= 4
    /\ Cardinality(Free(maze.grid)) < Len(maze.grid) * Len(maze.grid[1])

\* C2: when end is reachable from start, the path AlphaStar.solve() returns
\* has as many positions as the path BFS.solve() returns for the same maze,
\* and both have the least number of edges.
C2_AStarSameLength ==
    (Done(bfs) /\ Done(astar) /\ Reachable) =>
        /\ astar.pc = "returned"
        /\ bfs.pc = "returned"
        /\ Len(astar.path) = Len(bfs.path)
        /\ Len(astar.path) - 1 = shortest

\* Both searches have returned a path of three edges or more, and A* has
\* left unvisited a free cell that BFS visited.
C2_Witness ==
    /\ bfs.pc = "returned"
    /\ astar.pc = "returned"
    /\ Len(astar.path) >= 4
    /\ Len(astar.path) = Len(bfs.path)
    /\ \E p \in Free(maze.grid) : InSeq(p, bfs.visited) /\ p \notin astar.visited

\* C3: a path that BFS.solve() or AlphaStar.solve() returns and that is not
\* empty begins with maze.start and ends with maze.end.
C3_PathEnds ==
    /\ (bfs.pc = "returned" /\ bfs.path # <<>>) =>
          bfs.path[1] = maze.start /\ bfs.path[Len(bfs.path)] = maze.end
    /\ (astar.pc = "returned" /\ astar.path # <<>>) =>
          astar.path[1] = maze.start /\ astar.path[Len(astar.path)] = maze.end

\* Both searches have returned a path of two positions or more.
C3_Witness ==
    /\ bfs.pc = "returned"
    /\ astar.pc = "returned"
    /\ Len(bfs.path) >= 2
    /\ Len(astar.path) >= 2

\* C4: when end is not reachable from start, BFS.solve() and
\* AlphaStar.solve() each return the empty sequence and raise nothing.
C4_NoPathEmpty ==
    /\ (Done(bfs) /\ ~Reachable) => bfs.pc = "returned" /\ bfs.path = <<>>
    /\ (Done(astar) /\ ~Reachable) => astar.pc = "returned" /\ astar.path = <<>>

\* Both searches have returned from a maze whose end is unreachable, after
\* visiting a cell other than start.
C4_Witness ==
    /\ ~Reachable
    /\ bfs.pc = "returned"
    /\ astar.pc = "returned"
    /\ Len(bfs.visited) >= 2
    /\ Cardinality(astar.visited) >= 2

RECURSIVE CountCells(_, _, _)
\* The number of cells of the rows of g from row number i on that hold v.
CountCells(g, v, i) ==
    IF i > Len(g) THEN 0
    ELSE Cardinality({c \in 1 .. Len(g[i]) : g[i][c] = v}) + CountCells(g, v, i + 1)

\* A line that holds nothing but whitespace.
IsBlank(line) == strip(line) = <<>>

\* The lines of text that are not blank, in order.
WithoutBlankLines(text) == SelectSeq(text, LAMBDA line : ~IsBlank(line))

\* The cell digits.
CellChars == {"0", "1", "2", "3"}

\* C5: no Maze is constructed from a definition in which two or more cells
\* are 3: construction fails on the second.
C5_SecondEndRejected ==
    pc = "constructed" => CountCells(maze.grid, 3, 1) <= 1

\* C6: start and end of a constructed Maze are the grid coordinates of the
\* cells that hold 2 and 3, and the Maze is the one constructed from the same
\* definition with its blank lines taken out.
C6_StartEndAreCells ==
    pc = "constructed" =>
        /\ CellAt(maze.grid, maze.start) = 2
        /\ CellAt(maze.grid, maze.end) = 3
        /\ maze = read_maze(WithoutBlankLines(file))

\* C7: the rows of the grid of a constructed Maze all have the same length: a
\* definition whose rows differ in length is rejected.
C7_Rectangular ==
    pc = "constructed" =>
        \A i \in 1 .. Len(maze.grid) : Len(maze.grid[i]) = Len(maze.grid[1])

\* C8: a Maze is constructed only when every character of every line that is
\* not blank, the whitespace at its ends aside, is one of 0, 1, 2, 3, and then
\* each of these characters is a cell of the grid.
C8_EveryCharIsACell ==
    pc = "constructed" =>
        LET rows == WithoutBlankLines(file)
        IN  /\ Len(maze.grid) = Len(rows)
            /\ \A i \in 1 .. Len(rows) :
                  LET chars == strip(rows[i])
                  IN  /\ \A c \in 1 .. Len(chars) : chars[c] \in CellChars
                      /\ Len(maze.grid[i]) = Len(chars)
                      /\ \A c \in 1 .. Len(chars) : maze.grid[i][c] = int(chars[c])

\* C9: on a constructed Maze, is_valid_position((x, y)) never raises, and
\* returns true exactly when 0 <= y < height, 0 <= x < width and grid[y][x]
\* is no barrier.
C9_IsValidPosition ==
    call.op = "is_valid_position" =>
        LET x == call.arg[1]
            y == call.arg[2]
            height == Len(maze.grid)
            width == Len(maze.grid[1])
        IN  /\ call.raised = ""
            /\ call.value = << /\ 0 <= y /\ y < height
                               /\ 0 <= x /\ x < width
                               /\ CellAt(maze.grid, call.arg) # 1 >>

\* C10: get_neighbors(p) returns exactly the positions one unit step from p
\* in a cardinal direction for which is_valid_position is true, each once
\* and four at most, and none of them outside the grid or on a barrier.
C10_Neighbors ==
    call.op = "get_neighbors" =>
        LET p == call.arg
            ns == call.value
            \* the positions at Manhattan distance 1 from p
            steps == {<<p[1] - 1, p[2]>>, <<p[1] + 1, p[2]>>,
                      <<p[1], p[2] - 1>>, <<p[1], p[2] + 1>>}
            valid == {q \in steps : is_valid_position(maze.grid, q).value = TRUE}
        IN  /\ call.raised = ""
            /\ {ns[i] : i \in 1 .. Len(ns)} = valid
            /\ Len(ns) = Cardinality(valid)
            /\ Len(ns) <= 4
            /\ \A i \in 1 .. Len(ns) : CellAt(maze.grid, ns[i]) \in {0, 2, 3}

\* get_neighbors has returned some position for a p that has a barrier on
\* one side and the edge of the grid on another.
C10_Witness ==
    /\ call.op = "get_neighbors"
    /\ Len(call.value) >= 1
    /\ \E q \in Positions(maze.grid) :
          UnitStep(call.arg, q) /\ CellAt(maze.grid, q) = 1
    /\ \E q \in Positions(maze.grid) :
          UnitStep(call.arg, q) /\ CellAt(maze.grid, q) = 0 - 1

RECURSIVE BFSRunsTo(_, _, _)
\* Whether BFS.solve(), run alone on maze m from state b, comes to state target.
BFSRunsTo(b, m, target) ==
    IF b = target THEN TRUE
    ELSE IF Done(b) THEN FALSE
    ELSE BFSRunsTo(BFSIteration(b, m), m, target)

RECURSIVE AStarRunsTo(_, _, _)
\* Whether AlphaStar.solve(), run alone on maze m from state a, comes to
\* state target.
AStarRunsTo(a, m, target) ==
    IF a = target THEN TRUE
    ELSE IF Done(a) THEN FALSE
    ELSE AStarRunsTo(AStarIteration(a, m), m, target)

\* C11: while a BFS and an AlphaStar take their steps in any order on the
\* same maze, the maze stays as it was loaded, and each solver is at every
\* step in a state of its run alone on that maze, so that it ends with the
\* path and the visited set of that run.
C11_Interleaved ==
    /\ maze = read_maze(file)
    /\ bfs.pc # "new" => BFSRunsTo(BFSBegin(NewBFS, maze), maze, bfs)
    /\ astar.pc # "new" => AStarRunsTo(AStarBegin(NewAlphaStar, maze), maze, astar)

\* Both searches are inside their loops at once, each having taken a
\* position other than start from its frontier.
C11_Witness ==
    /\ bfs.pc = "loop"
    /\ astar.pc = "loop"
    /\ Len(bfs.visited) - Len(bfs.queue) >= 2
    /\ Cardinality(astar.visited) >= 2

\* C12: BFS.solve() and AlphaStar.solve() each come to an end after finitely
\* many turns of their loops, by returning a path or with the frontier empty.
C12_Terminates ==
    <>(/\ bfs.pc = "returned"
       /\ bfs.path # <<>> \/ bfs.queue = <<>>
       /\ astar.pc = "returned"
       /\ astar.path # <<>> \/ astar.open_set = <<>>)

\* BFS has returned with its queue empty and A* with a path, each after
\* three turns of its loop or more.
C12_Witness ==
    /\ bfs.pc = "returned"
    /\ bfs.queue = <<>>
    /\ Len(bfs.visited) >= 3
    /\ astar.pc = "returned"
    /\ astar.path # <<>>
    /\ Cardinality(astar.visited) >= 3

\* The elements of sequence s.
Elems(s) == {s[i] : i \in 1 .. Len(s)}

\* The positions that wait in the open set of a.
Waiting(a) == {a.open_set[i][2] : i \in 1 .. Len(a.open_set)}

\* C13 as stated: in both strategies a position is in visited only once it
\* has been taken from the frontier for expansion, and no position that waits
\* in the frontier and was never taken from it is in visited.
C13_VisitedOnlyWhenTaken ==
    /\ Elems(bfs.visited) \subseteq Elems(bfs.expanded)
    /\ \A p \in Elems(bfs.queue) \ Elems(bfs.expanded) : ~InSeq(p, bfs.visited)
    /\ astar.visited \subseteq Elems(astar.expanded)
    /\ \A p \in Waiting(astar) \ Elems(astar.expanded) : p \notin astar.visited

\* C13 as amended: in AlphaStar.solve() a position is in visited exactly once
\* it has been popped for expansion, and no position that waits in the open
\* set and was never popped is in visited; BFS.solve() adds a position to
\* visited at the step where it enqueues it, so that visited holds the
\* positions expanded and those waiting in the queue, and end once taken.
C13_VisitedWhenTakenOrEnqueued ==
    /\ astar.visited = Elems(astar.expanded)
    /\ \A p \in Waiting(astar) \ Elems(astar.expanded) : p \notin astar.visited
    /\ Elems(bfs.expanded) \cup Elems(bfs.queue) \subseteq Elems(bfs.visited)
    /\ Elems(bfs.visited) \ (Elems(bfs.expanded) \cup Elems(bfs.queue))
          \subseteq {maze.end}
    /\ bfs.pc = "loop" =>
          Elems(bfs.visited) = Elems(bfs.expanded) \cup Elems(bfs.queue)

\* A* is in its loop with two positions visited and another waiting that is
\* not, after a BFS that left positions waiting in its queue.
C13_Witness ==
    /\ astar.pc = "loop"
    /\ Cardinality(astar.visited) >= 2
    /\ Waiting(astar) \ astar.visited # {}
    /\ bfs.queue # <<>>
    /\ Len(bfs.expanded) >= 2

\* No element occurs twice in sequence s.
NoDuplicates(s) == \A i, j \in 1 .. Len(s) : s[i] = s[j] => i = j

\* C14: at every step of BFS.solve() every position in the queue is in
\* visited, and no position is enqueued twice: no position is in the queue
\* twice, none is in the queue again after it was taken from it, and none was
\* taken from it twice.
C14_QueueInVisited ==
    /\ \A i \in 1 .. Len(bfs.queue) : InSeq(bfs.queue[i], bfs.visited)
    /\ NoDuplicates(bfs.queue)
    /\ NoDuplicates(bfs.expanded)
    /\ Elems(bfs.queue) \cap Elems(bfs.expanded) = {}

\* BFS is in its loop with two positions waiting, after expanding two
\* positions, the second of which has the first, visited, as a neighbour.
C14_Witness ==
    /\ bfs.pc = "loop"
    /\ Len(bfs.queue) >= 2
    /\ Len(bfs.expanded) >= 2
    /\ UnitStep(bfs.expanded[1], bfs.expanded[2])

\* The entry AlphaStar.solve() is about to pop is stale: its position is in
\* visited already.
StalePop ==
    /\ astar.pc = "loop"
    /\ astar.open_set # <<>>
    /\ Head(astar.open_set)[2] \in astar.visited

\* C15: an iteration of AlphaStar.solve() that pops a stale entry ignores
\* it: it takes the entry from the open set and does nothing else, neither
\* expanding the position again nor changing parent, g_costs, f_costs or
\* visited.
C15_StaleIgnored ==
    [][StalePop => astar' = [astar EXCEPT !.open_set = Tail(@)]]_vars

\* C16: with a position written (x, y) = (column, row), get_neighbors lists
\* the valid neighbours in the order up (row - 1), down (row + 1), left
\* (column - 1), right (column + 1).
C16_UpDownLeftRight ==
    call.op = "get_neighbors" =>
        LET x == call.arg[1]
            y == call.arg[2]
            up == <<x, y - 1>>
            down == <<x, y + 1>>
            left == <<x - 1, y>>
            right == <<x + 1, y>>
        IN  call.value = SelectSeq(<<up, down, left, right>>,
                                   LAMBDA q : CellAt(maze.grid, q) \in {0, 2, 3})

\* C17: heuristic is admissible and consistent: for a position p that is no
\* barrier and from which end is reachable it is at most the true shortest
\* distance from p to end, it is 0 at end, and it is at most 1 more than at
\* any position next to p.
C17_Heuristic ==
    call.op = "heuristic" =>
        LET p == call.arg
            h == call.value[1]
            d == Distance(maze.grid, p, maze.end)
        IN  /\ (CellAt(maze.grid, p) # 1 /\ d >= 0) => h <= d
            /\ p = maze.end => h = 0
            /\ \A q \in GridPositions(maze.grid) :
                  UnitStep(p, q) => h <= 1 + heuristic(maze, q)

\* heuristic was asked for a position two steps or more from end by its
\* estimate, from which barriers make the way to end longer than that.
C17_Witness ==
    /\ call.op = "heuristic"
    /\ call.value[1] >= 2
    /\ Distance(maze.grid, call.arg, maze.end) > call.value[1]

\* C18: from the step where AlphaStar.solve() pops a position and adds it to
\* visited, g_costs holds for it the true shortest distance from start, and
\* holds it ever after.
C18_VisitedCostsAreShortest ==
    \A p \in astar.visited :
        /\ p \in DOMAIN astar.g_costs
        /\ astar.g_costs[p] = Distance(maze.grid, maze.start, p)

\* A* has visited a position three steps or more from start, in a maze that
\* has a barrier.
C18_Witness ==
    /\ \E p \in astar.visited : astar.g_costs[p] >= 3
    /\ Cardinality(Free(maze.grid)) < Len(maze.grid) * Len(maze.grid[1])

\* path is a walk through the maze of grid g: each position holds a cell
\* that is no barrier, each next position is one unit step from the one
\* before, and no position occurs twice.
ValidWalk(g, path) ==
    /\ \A i \in 1 .. Len(path) : CellAt(g, path[i]) \in {0, 2, 3}
    /\ \A i \in 1 .. Len(path) - 1 : UnitStep(path[i], path[i + 1])
    /\ NoDuplicates(path)

\* C19: a path that BFS.solve() or AlphaStar.solve() returns and that is not
\* empty is a valid walk: in bounds, off barriers, by unit steps in cardinal
\* directions, without a position twice.
C19_PathIsWalk ==
    /\ (bfs.pc = "returned" /\ bfs.path # <<>>) => ValidWalk(maze.grid, bfs.path)
    /\ (astar.pc = "returned" /\ astar.path # <<>>) => ValidWalk(maze.grid, astar.path)

\* Both searches have returned a path that turns a corner, in a maze that
\* has a barrier.
C19_Witness ==
    /\ bfs.pc = "returned"
    /\ astar.pc = "returned"
    /\ Len(bfs.path) >= 3
    /\ Len(astar.path) >= 3
    /\ bfs.path[1][1] # bfs.path[Len(bfs.path)][1]
    /\ bfs.path[1][2] # bfs.path[Len(bfs.path)][2]
    /\ \E p \in GridPositions(maze.grid) : CellAt(maze.grid, p) = 1

RECURSIVE ChainReaches(_, _, _, _)
\* Whether following parent from position p comes to start, whose parent is
\* None, in n steps at most, every position on the way being a key of parent.
ChainReaches(parent, p, start, n) ==
    IF p \notin DOMAIN parent THEN FALSE
    ELSE IF parent[p] = None THEN p = start
    ELSE IF n = 0 THEN FALSE
    ELSE ChainReaches(parent, parent[p], start, n - 1)

\* C20: at every step of both strategies every position in the frontier is a
\* key of parent, and the parent links from it lead to start, the one
\* position whose parent is None, without a missing key and without a cycle.
C20_ParentChains ==
    /\ \A p \in Elems(bfs.queue) :
          ChainReaches(bfs.parent, p, maze.start, Cardinality(DOMAIN bfs.parent))
    /\ \A p \in Waiting(astar) :
          ChainReaches(astar.parent, p, maze.start, Cardinality(DOMAIN astar.parent))

\* A position waits in the open set of A* two links or more from start, and
\* BFS has left one waiting in its queue whose parent is not start.
C20_Witness ==
    /\ astar.pc = "loop"
    /\ \E p \in Waiting(astar) : astar.g_costs[p] >= 2
    /\ \E p \in Elems(bfs.queue) : p # maze.start /\ bfs.parent[p] # maze.start

\* C21: every entry AlphaStar.solve() pushes into the open set has as its key
\* the f_cost recorded for its position at the push, which is g_costs of the
\* position plus its heuristic; the entry pushed for start has the key
\* heuristic(start).
C21_KeysAreFCosts ==
    [][\A i \in 1 .. Len(astar'.open_set) :
          LET key == astar'.open_set[i][1]
              position == astar'.open_set[i][2]
          IN  astar'.open_set[i] \notin Elems(astar.open_set) =>
                 /\ position \in DOMAIN astar'.f_costs
                 /\ key = astar'.f_costs[position]
                 /\ key = astar'.g_costs[position] + heuristic(maze, position)]_vars

====
